---- MODULE Spec2Model ----
(***************************************************************************)
(* rememepy: Generator (substitution.py) and the supporting functions      *)
(* find_dominant_color, are_colors_similar and find_placement              *)
(* (supporting_functions.py).                                              *)
(*                                                                         *)
(* Python values are modelled as follows.  None is the empty tuple.  A     *)
(* pixel position is the tuple <<x, y>> (0-based, as in the code).  A      *)
(* color is the tuple <<r, g, b>>.  The pixel grid of an image is the      *)
(* sequence of its rows, each row the sequence of its colors, so that      *)
(* pixel (x, y) is grid[y + 1][x + 1].  A reference to a PIL image object  *)
(* held in a field is Ref(image), which is never None.                     *)
(***************************************************************************)
EXTENDS Integers, Sequences, FiniteSets, TLC

None == <<>>

Ref(obj) == <<obj>>

Deref(ref) == ref[1]

White == <<255, 255, 255>>

Black == <<0, 0, 0>>

(* 736 and 735 as channel sums: 29 and 30 away from white. *)
NearWhite == <<245, 245, 246>>

OffWhite == <<245, 245, 245>>

(***************************************************************************)
(* Bounds of the model.                                                    *)
(***************************************************************************)
(* The templates of the scan: every grid of at most MaxPixels pixels. *)
MaxPixels == 12

(* Largest side of the templates made of one centered rectangle. *)
MaxBand == 6

(***************************************************************************)
(* supporting_functions.py                                                 *)
(***************************************************************************)
SimilarityTolerance == 30

Abs(n) == IF n < 0 THEN -n ELSE n

(* are_colors_similar with the comparison turned round. *)
AreColorsSimilarInverted(color1, color2, tolerance) ==
    Abs((color2[1] + color2[2] + color2[3]) - (color1[1] + color1[2] + color1[3]))
      > tolerance

are_colors_similar(color1, color2, tolerance) ==
    LET color1_sum == color1[1] + color1[2] + color1[3]
        color2_sum == color2[1] + color2[2] + color2[3]
        difference == Abs(color2_sum - color1_sum)
    IN  difference < tolerance

GridWidth(grid) == Len(grid[1])

GridHeight(grid) == Len(grid)

Pixel(grid, x, y) == grid[y + 1][x + 1]

(* The local variables of find_placement before the first row. *)
FpInit(grid) ==
    [ pc |-> "row",
      x |-> 0,
      y |-> 0,
      tolerance |-> 0,
      line_start |-> None,
      last_different |-> None,
      passed |-> TRUE,
      substitute_width |-> 0,
      substitute_height |-> 0,
      starting_position |-> None,
      current_matching_lines_streak |-> 0 ]

(* FpRowStart starting every row with a width of 0. *)
FpRowStartResetsWidth(f, grid) ==
    [ f EXCEPT !.pc = IF GridWidth(grid) > 0 THEN "pixel" ELSE "rowend",
               !.x = 0,
               !.tolerance = GridWidth(grid) \div 2,
               !.line_start = None,
               !.last_different = None,
               !.passed = TRUE,
               !.substitute_width = 0 ]

(* The head of the body of the loop over y. *)
FpRowStart(f, grid) ==
    [ f EXCEPT !.pc = IF GridWidth(grid) > 0 THEN "pixel" ELSE "rowend",
               !.x = 0,
               !.tolerance = GridWidth(grid) \div 2,
               !.line_start = None,
               !.last_different = None,
               !.passed = TRUE ]

(* FpUpdateWidth counting both end pixels of the segment. *)
FpUpdateWidthInclusive(f) ==
    IF f.line_start # None /\ f.last_different # None
    THEN LET current_line_length == f.last_different[1] - f.line_start[1] + 1
         IN  IF current_line_length > f.substitute_width
             THEN [ f EXCEPT !.substitute_width = current_line_length ]
             ELSE f
    ELSE f

(* "update substitute width if a longer segment is found" *)
FpUpdateWidth(f) ==
    IF f.line_start # None /\ f.last_different # None
    THEN LET current_line_length == f.last_different[1] - f.line_start[1]
         IN  IF current_line_length > f.substitute_width
             THEN [ f EXCEPT !.substitute_width = current_line_length ]
             ELSE f
    ELSE f

(* Leaves pixel x: the next pixel of the row, or the end of the row. *)
FpAdvance(f, grid) ==
    IF f.x + 1 < GridWidth(grid)
    THEN [ f EXCEPT !.x = f.x + 1 ]
    ELSE [ f EXCEPT !.pc = "rowend" ]

(* One pass of the loop over x, at pixel (f.x, f.y). *)
FpPixel(f, grid, dominant_color) ==
    LET color == Pixel(grid, f.x, f.y)
    IN  IF are_colors_similar(color, dominant_color, SimilarityTolerance)
        THEN LET g == [ f EXCEPT !.tolerance = f.tolerance - 1 ]
             IN  IF g.tolerance = 0
                 THEN [ g EXCEPT !.passed = FALSE, !.pc = "rowend" ]
                 ELSE \* the update is written twice on this path
                      FpAdvance(FpUpdateWidth(FpUpdateWidth(g)), grid)
        ELSE LET g == [ f EXCEPT !.last_different = <<f.x, f.y>>,
                                 !.line_start = IF f.line_start = None
                                                THEN <<f.x, f.y>>
                                                ELSE f.line_start ]
             IN  FpAdvance(FpUpdateWidth(g), grid)

(* FpRowEnd recording the row where the streak ended as the top row. *)
FpRowEndAtEndingRow(f, grid) ==
    LET template_height == GridHeight(grid)
        g == IF f.passed /\ f.y # template_height - 1
             THEN [ f EXCEPT !.current_matching_lines_streak =
                                  f.current_matching_lines_streak + 1 ]
             ELSE LET h == IF f.substitute_height < f.current_matching_lines_streak
                              /\ f.line_start # None
                           THEN [ f EXCEPT
                                    !.substitute_height =
                                        f.current_matching_lines_streak,
                                    !.starting_position =
                                        << f.line_start[1], f.line_start[2] >> ]
                           ELSE f
                  IN  [ h EXCEPT !.current_matching_lines_streak = 0 ]
    IN  IF f.y + 1 < template_height
        THEN [ g EXCEPT !.pc = "row", !.y = f.y + 1 ]
        ELSE [ g EXCEPT !.pc = "return" ]

(* FpRowEnd taking a streak equal to the best one as a better one. *)
FpRowEndKeepsLatest(f, grid) ==
    LET template_height == GridHeight(grid)
        g == IF f.passed /\ f.y # template_height - 1
             THEN [ f EXCEPT !.current_matching_lines_streak =
                                  f.current_matching_lines_streak + 1 ]
             ELSE LET h == IF f.substitute_height <= f.current_matching_lines_streak
                              /\ f.line_start # None
                           THEN [ f EXCEPT
                                    !.substitute_height =
                                        f.current_matching_lines_streak,
                                    !.starting_position =
                                        << f.line_start[1],
                                           f.line_start[2]
                                             - f.current_matching_lines_streak >> ]
                           ELSE f
                  IN  [ h EXCEPT !.current_matching_lines_streak = 0 ]
    IN  IF f.y + 1 < template_height
        THEN [ g EXCEPT !.pc = "row", !.y = f.y + 1 ]
        ELSE [ g EXCEPT !.pc = "return" ]

(* The tail of the body of the loop over y, and the step to the next row. *)
FpRowEnd(f, grid) ==
    LET template_height == GridHeight(grid)
        g == IF f.passed /\ f.y # template_height - 1
             THEN [ f EXCEPT !.current_matching_lines_streak =
                                  f.current_matching_lines_streak + 1 ]
             ELSE LET h == IF f.substitute_height < f.current_matching_lines_streak
                              /\ f.line_start # None
                           THEN [ f EXCEPT
                                    !.substitute_height =
                                        f.current_matching_lines_streak,
                                    !.starting_position =
                                        << f.line_start[1],
                                           f.line_start[2]
                                             - f.current_matching_lines_streak >> ]
                           ELSE f
                  IN  [ h EXCEPT !.current_matching_lines_streak = 0 ]
    IN  IF f.y + 1 < template_height
        THEN [ g EXCEPT !.pc = "row", !.y = f.y + 1 ]
        ELSE [ g EXCEPT !.pc = "return" ]

FpStep(f, grid, dominant_color) ==
    CASE f.pc = "row" -> FpRowStart(f, grid)
      [] f.pc = "pixel" -> FpPixel(f, grid, dominant_color)
      [] f.pc = "rowend" -> FpRowEnd(f, grid)
      [] OTHER -> f

FpResult(f) == << f.starting_position, << f.substitute_width, f.substitute_height >> >>

RECURSIVE FpRun(_, _, _)
FpRun(f, grid, dominant_color) ==
    IF f.pc = "return"
    THEN f
    ELSE FpRun(FpStep(f, grid, dominant_color), grid, dominant_color)

find_placement(grid, dominant_color) ==
    FpResult(FpRun(FpInit(grid), grid, dominant_color))

(***************************************************************************)
(* find_dominant_color.  The observations are the pixels of the grid in    *)
(* row-major order.  scipy's kmeans is a collaborator: it rejects a        *)
(* cluster count below 1 with a ValueError, and otherwise returns a code   *)
(* book of at most that many centroids that depends on its random          *)
(* initialisation, so every code book over CodePalette is kept.            *)
(***************************************************************************)
MaxClusters == 3

CodePalette == { White, Black, OffWhite }

CodeBooks(k) ==
    { cb \in UNION { [ 1..n -> CodePalette ] : n \in 1..k } :
        \A i, j \in DOMAIN cb : i # j => cb[i] # cb[j] }

Dist2(c1, c2) ==
    (c1[1] - c2[1]) * (c1[1] - c2[1]) + (c1[2] - c2[2]) * (c1[2] - c2[2])
      + (c1[3] - c2[3]) * (c1[3] - c2[3])

(* scipy.cluster.vq.vq: the 0-based index of the nearest code, the first  *)
(* of them on a tie.                                                       *)
NearestCode(color, codes) ==
    CHOOSE i \in 0..(Len(codes) - 1) :
        /\ \A j \in 0..(Len(codes) - 1) :
              Dist2(color, codes[i + 1]) <= Dist2(color, codes[j + 1])
        /\ \A j \in 0..(i - 1) :
              Dist2(color, codes[j + 1]) > Dist2(color, codes[i + 1])

PixelPositions(grid) == (0..(GridWidth(grid) - 1)) \X (0..(GridHeight(grid) - 1))

(* vecs, as the set of the positions assigned to each code index. *)
Assigned(grid, codes, i) ==
    { p \in PixelPositions(grid) : NearestCode(Pixel(grid, p[1], p[2]), codes) = i }

SetMin(S) == CHOOSE m \in S : \A n \in S : m <= n

SetMax(S) == CHOOSE m \in S : \A n \in S : m >= n

(* numpy.histogram(vecs, bins): bins equal-width bins over [min, max] of  *)
(* vecs, the last one closed; over [min - 0.5, max + 0.5] when min = max.  *)
HistogramBin(v, lo, hi, bins) ==
    IF lo = hi
    THEN bins \div 2
    ELSE IF v = hi THEN bins - 1 ELSE ((v - lo) * bins) \div (hi - lo)

HistogramCounts(grid, codes) ==
    LET bins == Len(codes)
        used == { i \in 0..(bins - 1) : Assigned(grid, codes, i) # {} }
        lo == SetMin(used)
        hi == SetMax(used)
    IN  [ b \in 0..(bins - 1) |->
            Cardinality({ p \in PixelPositions(grid) :
                HistogramBin(NearestCode(Pixel(grid, p[1], p[2]), codes),
                             lo, hi, bins) = b }) ]

(* numpy.argmax: the first index of the maximum. *)
ArgMax(counts) ==
    CHOOSE i \in DOMAIN counts :
        /\ \A j \in DOMAIN counts : counts[j] <= counts[i]
        /\ \A j \in DOMAIN counts : j < i => counts[j] < counts[i]

(* The color returned for one code book of kmeans. *)
Peak(grid, codes) == codes[ArgMax(HistogramCounts(grid, codes)) + 1]

(* Every outcome of find_dominant_color(img, dominant_clusters_amount):   *)
(* the exception raised ("" for none), the color returned and the calls   *)
(* made on the way.                                                       *)
find_dominant_color(grid, dominant_clusters_amount) ==
    IF dominant_clusters_amount < 1
    THEN { [ exc |-> "ValueError", peak |-> None,
             trace |-> << "np.asarray", "kmeans" >> ] }
    ELSE { [ exc |-> "", peak |-> Peak(grid, codes),
             trace |-> << "np.asarray", "kmeans", "vq", "histogram" >> ] :
           codes \in CodeBooks(dominant_clusters_amount) }

(***************************************************************************)
(* The image files and the PIL collaborators.  An image object is the      *)
(* record of the file it was opened from, its size and what was pasted on  *)
(* it: << overlay size, box >>, or None.                                   *)
(***************************************************************************)
Files ==
    [ p \in { "blank.png", "meme.png", "wide.png", "sub.png" } |->
        CASE p = "blank.png" -> << << White, White >>, << White, White >> >>
          [] p = "meme.png" -> << << White, White, White >>,
                                  << Black, Black, Black >>,
                                  << Black, Black, Black >> >>
          [] p = "wide.png" -> << << Black, Black, Black, Black, Black, Black >>,
                                  << White, White, Black, Black, Black, Black >> >>
          [] OTHER -> << << Black, White >>, << White, Black >> >> ]

ImageOf(path) ==
    [ path |-> path,
      size |-> << GridWidth(Files[path]), GridHeight(Files[path]) >>,
      pasted |-> None ]

(* Image.open: the exception raised, "" for none. *)
ImageOpen(path) == IF path \in DOMAIN Files THEN "" ELSE "FileNotFoundError"

(* Image.resize.  For a size with a zero side the outcome is the image     *)
(* library's: it either raises ValueError or returns the empty image.      *)
ImageResize(img, size) ==
    { [ exc |-> "", img |-> [ img EXCEPT !.size = size ] ] }
      \cup IF size[1] < 1 \/ size[2] < 1
           THEN { [ exc |-> "ValueError", img |-> img ] }
           ELSE {}

(* Image.paste(im, box): a box of None is the upper left corner. *)
ImagePaste(base, overlay, box) ==
    [ base EXCEPT !.pasted = << overlay.size, IF box = None THEN << 0, 0 >> ELSE box >> ]

(***************************************************************************)
(* Generator.substitute.  Every outcome of one call: the exception raised  *)
(* ("" for none), the collaborator calls made, the local dominant_color    *)
(* (None when it was not assigned), what find_placement returned (None     *)
(* when it was not called) and the values of the locals                    *)
(* placement_position, resized_substitute and template at the end.         *)
(***************************************************************************)
Outcome(exc, trace, color, placement, position, resized, tpl) ==
    [ exc |-> exc, trace |-> trace, dominant_color |-> color,
      placement |-> placement, placement_position |-> position,
      resized_substitute |-> resized, template |-> tpl ]

(* Lines 46 to 48 and the return value, after the size is known. *)
ResizeAndPaste(tpl, substitute, trace, color, placement, position, new_size) ==
    { IF r.exc # ""
      THEN Outcome(r.exc, trace \o << "resize" >>, color, placement,
                   None, None, None)
      ELSE Outcome("", trace \o << "resize", "paste" >>, color, placement,
                   position, Ref(r.img), Ref(ImagePaste(tpl, r.img, position))) :
      r \in ImageResize(substitute, new_size) }

(* dominant_color of line 43: white, or find_dominant_color's outcomes. *)
DominantColorOutcomes(grid, use_dominant_color, dominant_cluster_amount) ==
    IF ~use_dominant_color
    THEN { [ exc |-> "", peak |-> White, trace |-> << >> ] }
    ELSE find_dominant_color(grid, dominant_cluster_amount)

substitute(source_img_path, substitute_img_path, use_dominant_color, dominant_cluster_amount, resize_to) ==
    IF ImageOpen(source_img_path) # ""
    THEN { Outcome(ImageOpen(source_img_path), << "Image.open" >>,
                   None, None, None, None, None) }
    ELSE IF ImageOpen(substitute_img_path) # ""
    THEN { Outcome(ImageOpen(substitute_img_path), << "Image.open", "Image.open" >>,
                   None, None, None, None, None) }
    ELSE LET tpl == ImageOf(source_img_path)
             sub == ImageOf(substitute_img_path)
             opened == << "Image.open", "Image.open" >>
         IN  IF resize_to # None
             THEN ResizeAndPaste(tpl, sub, opened, None, None, << 0, 0 >>, resize_to)
             ELSE UNION {
                    IF d.exc # ""
                    THEN { Outcome(d.exc, opened \o d.trace, None, None, None, None,
                                   None) }
                    ELSE LET placement == find_placement(Files[source_img_path], d.peak)
                         IN  ResizeAndPaste(tpl, sub,
                                            opened \o d.trace \o << "find_placement" >>,
                                            d.peak, Ref(placement), placement[1],
                                            placement[2]) :
                    d \in DominantColorOutcomes(Files[source_img_path],
                                                use_dominant_color,
                                                dominant_cluster_amount) }

(***************************************************************************)
(* Generator.validate_last_substitution on given field values.  The        *)
(* thresholds are fractions << numerator, denominator >>, and the ratio    *)
(* of the areas is compared with them exactly.                             *)
(***************************************************************************)
DefaultThresholdMin == << 1, 10 >>

DefaultThresholdMax == << 9, 10 >>

(* threshold <= numerator / denominator *)
FracLeq(threshold, numerator, denominator) ==
    threshold[1] * denominator <= numerator * threshold[2]

(* numerator / denominator <= threshold *)
FracGeq(threshold, numerator, denominator) ==
    numerator * threshold[2] <= threshold[1] * denominator

(* CoverageInside with both bounds exclusive. *)
CoverageInsideStrict(threshold_min, threshold_max, substitute_area, template_area) ==
    /\ ~FracGeq(threshold_min, substitute_area, template_area)
    /\ ~FracLeq(threshold_max, substitute_area, template_area)

CoverageInside(threshold_min, threshold_max, substitute_area, template_area) ==
    /\ FracLeq(threshold_min, substitute_area, template_area)
    /\ FracGeq(threshold_max, substitute_area, template_area)

OutOfBounds(x, y, w, h, template_size) ==
    x < 0 \/ y < 0 \/ x + w > template_size[1] \/ y + h > template_size[2]

(* all([...]) of line 79: None is the only falsy value a field can hold. *)
HasSubstitution(tpl, resized, position) ==
    tpl # None /\ resized # None /\ position # None

(* Lines 82 to 94: "True", "False", or the name of the exception raised. *)
Verdict(tpl, resized, position, threshold_min, threshold_max) ==
    LET template_size == Deref(tpl).size
        substitute_size == Deref(resized).size
        template_area == template_size[1] * template_size[2]
        substitute_area == substitute_size[1] * substitute_size[2]
    IN  IF template_area = 0
        THEN "ZeroDivisionError"
        ELSE IF ~CoverageInside(threshold_min, threshold_max,
                                substitute_area, template_area)
        THEN "False"
        ELSE IF OutOfBounds(position[1], position[2], substitute_size[1],
                            substitute_size[2], template_size)
        THEN "False"
        ELSE "True"

(* validate answering False where it has nothing to judge. *)
ValidateReturnsFalse(tpl, resized, position, threshold_min, threshold_max) ==
    IF ~HasSubstitution(tpl, resized, position)
    THEN "False"
    ELSE Verdict(tpl, resized, position, threshold_min, threshold_max)

validate(tpl, resized, position, threshold_min, threshold_max) ==
    IF ~HasSubstitution(tpl, resized, position)
    THEN "ValueError"
    ELSE Verdict(tpl, resized, position, threshold_min, threshold_max)

(***************************************************************************)
(* State.  template, dominant and fp are one run of find_placement:  *)
(* its arguments and its local variables.  The last_placement_position,    *)
(* last_resized_substitute and last_template variables are the fields of   *)
(* one Generator.  search is the frame of substitute_until_valid.  The      *)
(* other variables record what the calls did.  last_substitute and         *)
(* last_validate are the calls of the two methods made by the caller's     *)
(* most recent call, or during it: None when it made none.  substituted     *)
(* tells whether a substitute call has ever returned.  dc is one run of    *)
(* find_dominant_color: its argument and its local variables.              *)
(***************************************************************************)
VARIABLES template, dominant, fp,
          last_placement_position, last_resized_substitute, last_template,
          search, last_substitute, last_validate, substituted, dc

locate_vars == << template, dominant, fp >>

generator_vars == << last_placement_position, last_resized_substitute, last_template >>

call_vars == << search, last_substitute, last_validate, substituted >>

vars == << locate_vars, generator_vars, call_vars, dc >>

(* Generator.__init__ *)
GeneratorInit ==
    /\ last_placement_position = None
    /\ last_resized_substitute = None
    /\ last_template = None

SearchIdle ==
    [ pc |-> "idle", source_img_path |-> "", substitute_img_path |-> "",
      initial_use_dominant_color |-> FALSE,
      cluster_range |-> << 0, 0 >>, toggle_index |-> 0, cluster_amount |-> 0,
      tried_variants |-> {}, calls |-> << >>, verdicts |-> << >>,
      exc |-> "", ret |-> None ]

(* The local variables of find_dominant_color when it is not running. *)
DcIdle ==
    [ pc |-> "idle", dominant_clusters_amount |-> 0, codes |-> << >>,
      vecs |-> << >>, counts |-> << >>, peak |-> None, exc |-> "" ]

NoCalls ==
    /\ dc = DcIdle
    /\ search = SearchIdle
    /\ last_substitute = None
    /\ last_validate = None
    /\ substituted = FALSE

(***************************************************************************)
(* The scan of find_placement, one step at a time, over every template of  *)
(* the bounds and every reference color.                                   *)
(***************************************************************************)
PixelColors == { White, OffWhite }

DominantColors == { White, NearWhite, OffWhite }

Shapes(n) == { s \in (1..n) \X (1..n) : s[1] * s[2] <= n }

Grids(n) == UNION { [ 1..s[2] -> [ 1..s[1] -> PixelColors ] ] : s \in Shapes(n) }

(* Background C with one rectangle of D, the same margin left and right   *)
(* and the same margin above and below.                                    *)
CenteredGrid(W, H, rw, rh, C, D) ==
    LET left == (W - rw) \div 2
        top == (H - rh) \div 2
    IN  [ r \in 1..H |->
            [ c \in 1..W |->
                IF /\ c - 1 >= left /\ c - 1 < left + rw
                   /\ r - 1 >= top /\ r - 1 < top + rh
                THEN D ELSE C ] ]

CenteredShapes(n) ==
    { q \in (1..n) \X (1..n) \X (1..n) \X (1..n) :
        /\ q[3] <= q[1] /\ q[4] <= q[2]
        /\ (q[1] - q[3]) % 2 = 0 /\ (q[2] - q[4]) % 2 = 0 }

CenteredGrids(n) ==
    { CenteredGrid(q[1], q[2], q[3], q[4], White, Black) : q \in CenteredShapes(n) }

LocateInit ==
    /\ template \in Grids(MaxPixels) \cup CenteredGrids(MaxBand)
    /\ dominant \in DominantColors
    /\ fp = FpInit(template)
    /\ GeneratorInit
    /\ NoCalls

LocateRow ==
    /\ fp.pc = "row"
    /\ fp' = FpRowStart(fp, template)
    /\ UNCHANGED << template, dominant, generator_vars, call_vars, dc >>

LocatePixel ==
    /\ fp.pc = "pixel"
    /\ fp' = FpPixel(fp, template, dominant)
    /\ UNCHANGED << template, dominant, generator_vars, call_vars, dc >>

LocateRowEnd ==
    /\ fp.pc = "rowend"
    /\ fp' = FpRowEnd(fp, template)
    /\ UNCHANGED << template, dominant, generator_vars, call_vars, dc >>

LocateNext == LocateRow \/ LocatePixel \/ LocateRowEnd

SpecLocate == LocateInit /\ [][LocateNext]_vars

(***************************************************************************)
(* find_dominant_color, one statement at a time, on every pixel grid of at *)
(* most MaxSample pixels and on the image files, for every cluster amount  *)
(* and every code book kmeans can hand back.                               *)
(***************************************************************************)
MaxSample == 6

SampleGrids == Grids(MaxSample) \cup { Files[p] : p \in DOMAIN Files }

(* vecs of line 19: the code index of every observation. *)
Vecs(grid, codes) ==
    [ p \in PixelPositions(grid) |-> NearestCode(Pixel(grid, p[1], p[2]), codes) ]

DominantInit ==
    /\ template \in SampleGrids
    /\ dominant = White
    /\ fp = FpInit(template)
    /\ GeneratorInit
    /\ search = SearchIdle
    /\ last_substitute = None
    /\ last_validate = None
    /\ substituted = FALSE
    /\ \E k \in 0..MaxClusters :
          dc = [ DcIdle EXCEPT !.pc = "kmeans", !.dominant_clusters_amount = k ]

(* Line 17. *)
DominantKmeans ==
    /\ dc.pc = "kmeans"
    /\ IF dc.dominant_clusters_amount < 1
       THEN dc' = [ dc EXCEPT !.pc = "raised", !.exc = "ValueError" ]
       ELSE \E codes \in CodeBooks(dc.dominant_clusters_amount) :
               dc' = [ dc EXCEPT !.pc = "vq", !.codes = codes ]
    /\ UNCHANGED << locate_vars, generator_vars, call_vars >>

(* Line 19. *)
DominantVq ==
    /\ dc.pc = "vq"
    /\ dc' = [ dc EXCEPT !.pc = "histogram", !.vecs = Vecs(template, dc.codes) ]
    /\ UNCHANGED << locate_vars, generator_vars, call_vars >>

(* Line 20. *)
DominantHistogram ==
    /\ dc.pc = "histogram"
    /\ dc' = [ dc EXCEPT !.pc = "argmax",
                         !.counts = HistogramCounts(template, dc.codes) ]
    /\ UNCHANGED << locate_vars, generator_vars, call_vars >>

(* Lines 22 to 25. *)
DominantArgmax ==
    /\ dc.pc = "argmax"
    /\ dc' = [ dc EXCEPT !.pc = "return", !.peak = dc.codes[ArgMax(dc.counts) + 1] ]
    /\ UNCHANGED << locate_vars, generator_vars, call_vars >>

DominantNext == DominantKmeans \/ DominantVq \/ DominantHistogram \/ DominantArgmax

SpecDominant == DominantInit /\ [][DominantNext]_vars

(***************************************************************************)
(* One Generator and its caller: substitute, validate_last_substitution    *)
(* and substitute_until_valid, called in any order with any arguments of   *)
(* the sets below.  substitute_until_valid runs one pass of its inner loop *)
(* per step, and no other call starts before it has returned.              *)
(***************************************************************************)
SourcePaths == { "blank.png", "meme.png", "wide.png", "missing.png" }

SubstitutePaths == { "sub.png" }

ClusterAmounts == 0..MaxClusters

ResizeTo == { None, << 2, 2 >>, << 4, 2 >> }

Thresholds == { << 1, 10 >>, << 1, 4 >>, << 4, 9 >>, << 8, 9 >>, << 9, 10 >> }

Args(source_img_path, substitute_img_path, use_dominant_color, dominant_cluster_amount, resize_to) ==
    [ source_img_path |-> source_img_path,
      substitute_img_path |-> substitute_img_path,
      use_dominant_color |-> use_dominant_color,
      dominant_cluster_amount |-> dominant_cluster_amount,
      resize_to |-> resize_to ]

AllArgs ==
    { Args(src, sub, use, k, rt) :
        src \in SourcePaths, sub \in SubstitutePaths, use \in BOOLEAN,
        k \in ClusterAmounts, rt \in ResizeTo }

(* The outcomes of substitute for each argument list, enumerated once. *)
SubstituteTable ==
    { << a, { o : o \in substitute(a.source_img_path, a.substitute_img_path,
                                   a.use_dominant_color, a.dominant_cluster_amount,
                                   a.resize_to) } >> : a \in AllArgs }

SubstituteOf(a) == (CHOOSE e \in SubstituteTable : e[1] = a)[2]

(* What a substitute call did: its arguments, its outcome and the three   *)
(* fields as they were when it was called.                                 *)
SubstituteCall(args, out, stored_before) ==
    [ args |-> args, out |-> out, stored_before |-> stored_before ]

(* SaveState assigning the fields on the way out of a call that raised    *)
(* too.                                                                    *)
SaveStateAlways(o) ==
    /\ last_placement_position' = o.placement_position
    /\ last_resized_substitute' = o.resized_substitute
    /\ last_template' = o.template

(* SaveState without the assignment of line 53. *)
SaveStateKeepsTemplate(o) ==
    IF o.exc = ""
    THEN /\ last_placement_position' = o.placement_position
         /\ last_resized_substitute' = o.resized_substitute
         /\ UNCHANGED last_template
    ELSE UNCHANGED generator_vars

(* "save state for validation": only a call that raised nothing gets there. *)
SaveState(o) ==
    IF o.exc = ""
    THEN /\ last_placement_position' = o.placement_position
         /\ last_resized_substitute' = o.resized_substitute
         /\ last_template' = o.template
    ELSE UNCHANGED generator_vars

Substitute ==
    /\ search.pc = "idle"
    /\ \E a \in AllArgs :
          \E o \in SubstituteOf(a) :
            /\ SaveState(o)
            /\ last_substitute' = Ref(SubstituteCall(a, o, generator_vars))
            /\ substituted' = (substituted \/ o.exc = "")
    /\ last_validate' = None
    /\ UNCHANGED << dc, locate_vars, search >>

validate_last_substitution(threshold_min, threshold_max) ==
    validate(last_template, last_resized_substitute, last_placement_position,
             threshold_min, threshold_max)

(* The thresholds and the result of the validate call before this one,    *)
(* when no substitute call came between the two: None otherwise.           *)
PreviousValidate ==
    IF last_validate = None
    THEN None
    ELSE Ref([ threshold_min |-> Deref(last_validate).threshold_min,
               threshold_max |-> Deref(last_validate).threshold_max,
               result |-> Deref(last_validate).result ])

(* What a validate call did: its arguments, what it returned or raised,   *)
(* whether a substitute call had returned before it, the three fields as   *)
(* they were when it was called, and the validate call before it.          *)
ValidateCall(threshold_min, threshold_max, result, after_substitute, stored_before, previous) ==
    [ threshold_min |-> threshold_min, threshold_max |-> threshold_max,
      result |-> result, after_substitute |-> after_substitute,
      stored_before |-> stored_before, previous |-> previous ]

(* Validate discarding the attempt it has judged. *)
ValidateConsumes ==
    /\ search.pc = "idle"
    /\ \E tmin \in Thresholds, tmax \in Thresholds :
          last_validate' = Ref(ValidateCall(tmin, tmax,
                                            validate_last_substitution(tmin, tmax),
                                            substituted, generator_vars,
                                            PreviousValidate))
    /\ last_substitute' = None
    /\ last_placement_position' = None
    /\ last_resized_substitute' = None
    /\ last_template' = None
    /\ UNCHANGED << dc, locate_vars, search, substituted >>

Validate ==
    /\ search.pc = "idle"
    /\ \E tmin \in Thresholds, tmax \in Thresholds :
          last_validate' = Ref(ValidateCall(tmin, tmax,
                                            validate_last_substitution(tmin, tmax),
                                            substituted, generator_vars,
                                            PreviousValidate))
    /\ last_substitute' = None
    /\ UNCHANGED << dc, locate_vars, generator_vars, search, substituted >>

(* Toggles without the negation of the second entry. *)
TogglesSame(initial_use_dominant_color) ==
    << initial_use_dominant_color, initial_use_dominant_color >>

(* The list of the outer loop of substitute_until_valid. *)
Toggles(initial_use_dominant_color) ==
    << initial_use_dominant_color, ~initial_use_dominant_color >>

(* SearchCall passing the initial toggle instead of the loop's. *)
SearchCallInitial(use_dominant_color, cluster_amount) ==
    Args(search.source_img_path, search.substitute_img_path,
         search.initial_use_dominant_color, cluster_amount, None)

(* The arguments of the call of self.substitute in the loop. *)
SearchCall(use_dominant_color, cluster_amount) ==
    Args(search.source_img_path, search.substitute_img_path, use_dominant_color,
         cluster_amount, None)

(* The frame after "tried_variants = set()": at the first pass of the      *)
(* loops, or at "return None" when range(...) is empty.                    *)
SearchEnter(source_img_path, substitute_img_path, initial_use_dominant_color, cluster_range) ==
    LET s == [ SearchIdle EXCEPT
                 !.source_img_path = source_img_path,
                 !.substitute_img_path = substitute_img_path,
                 !.initial_use_dominant_color = initial_use_dominant_color,
                 !.cluster_range = cluster_range ]
    IN  IF cluster_range[1] < cluster_range[2] + 1
        THEN [ s EXCEPT !.pc = "loop", !.toggle_index = 1,
                        !.cluster_amount = cluster_range[1] ]
        ELSE [ s EXCEPT !.pc = "done" ]

(* The next pass of the two loops, or "return None" after the last one. *)
SearchAdvance(s) ==
    IF s.cluster_amount + 1 < s.cluster_range[2] + 1
    THEN [ s EXCEPT !.cluster_amount = s.cluster_amount + 1 ]
    ELSE IF s.toggle_index < Len(Toggles(s.initial_use_dominant_color))
    THEN [ s EXCEPT !.toggle_index = s.toggle_index + 1,
                    !.cluster_amount = s.cluster_range[1] ]
    ELSE [ s EXCEPT !.pc = "done", !.ret = None ]

SearchStart ==
    /\ search.pc = "idle"
    /\ \E src \in SourcePaths, sub \in SubstitutePaths, initial \in BOOLEAN,
          lo \in ClusterAmounts, hi \in ClusterAmounts :
          search' = SearchEnter(src, sub, initial, << lo, hi >>)
    /\ last_substitute' = None
    /\ last_validate' = None
    /\ UNCHANGED << dc, locate_vars, generator_vars, substituted >>

(* One pass of the body of the inner loop. *)
SearchIter ==
    /\ search.pc = "loop"
    /\ LET use_dominant_color ==
              Toggles(search.initial_use_dominant_color)[search.toggle_index]
           variant == << use_dominant_color, search.cluster_amount >>
       IN  IF variant \in search.tried_variants
           THEN /\ search' = SearchAdvance(search)
                /\ UNCHANGED << generator_vars, last_substitute, last_validate,
                                substituted >>
           ELSE LET a == SearchCall(use_dominant_color, search.cluster_amount)
                    s == [ search EXCEPT !.tried_variants = @ \cup { variant },
                                         !.calls = Append(@, a) ]
                IN  \E o \in SubstituteOf(a) :
                      /\ SaveState(o)
                      /\ last_substitute' = Ref(SubstituteCall(a, o, generator_vars))
                      /\ substituted' = (substituted \/ o.exc = "")
                      /\ IF o.exc # ""
                         THEN /\ search' = [ s EXCEPT !.pc = "done", !.exc = o.exc ]
                              /\ UNCHANGED last_validate
                         ELSE LET v == validate(last_template',
                                                last_resized_substitute',
                                                last_placement_position',
                                                DefaultThresholdMin,
                                                DefaultThresholdMax)
                                  t == [ s EXCEPT !.verdicts = Append(@, v) ]
                              IN  /\ last_validate' =
                                       Ref(ValidateCall(DefaultThresholdMin,
                                                        DefaultThresholdMax, v, TRUE,
                                                        generator_vars', None))
                                  /\ search' =
                                       CASE v = "True" ->
                                              [ t EXCEPT !.pc = "done",
                                                         !.ret = o.template ]
                                         [] v = "False" -> SearchAdvance(t)
                                         [] OTHER ->
                                              [ t EXCEPT !.pc = "done", !.exc = v ]
    /\ UNCHANGED << dc, locate_vars >>

(* The caller has the result (or the exception) of the search. *)
SearchReturn ==
    /\ search.pc = "done"
    /\ search' = SearchIdle
    /\ UNCHANGED << dc, locate_vars, generator_vars, last_substitute, last_validate,
                    substituted >>

Init ==
    /\ template = Files["blank.png"]
    /\ dominant = White
    /\ fp = FpInit(template)
    /\ GeneratorInit
    /\ NoCalls

Next == Substitute \/ Validate \/ SearchStart \/ SearchIter \/ SearchReturn

Spec == Init /\ [][Next]_vars

(***************************************************************************)
(* Properties of validate_last_substitution and substitute (Spec).         *)
(***************************************************************************)
Judged == last_validate # None /\ HasSubstitution(last_template, last_resized_substitute, last_placement_position)

(* C1: on a stored attempt with position (x, y), substitute size (w, h)   *)
(* and template size (W, H), validate returns true exactly when            *)
(* threshold_min <= (w*h)/(W*H) <= threshold_max, both bounds included,    *)
(* and x >= 0, y >= 0, x + w <= W, y + h <= H; otherwise it returns false. *)
C1_ValidateIffCoverageAndBounds ==
    Judged =>
      LET v == Deref(last_validate)
          x == last_placement_position[1]
          y == last_placement_position[2]
          w == Deref(last_resized_substitute).size[1]
          h == Deref(last_resized_substitute).size[2]
          W == Deref(last_template).size[1]
          H == Deref(last_template).size[2]
          accepted ==
            /\ v.threshold_min[1] * (W * H) <= (w * h) * v.threshold_min[2]
            /\ (w * h) * v.threshold_max[2] <= v.threshold_max[1] * (W * H)
            /\ x >= 0 /\ y >= 0 /\ x + w <= W /\ y + h <= H
      IN  /\ v.result \in { "True", "False" }
          /\ v.result = "True" <=> accepted

(* A validate call that accepted an attempt whose ratio is exactly          *)
(* threshold_min.                                                          *)
C1_Witness ==
    /\ Judged
    /\ Deref(last_validate).result = "True"
    /\ LET v == Deref(last_validate)
           s == Deref(last_resized_substitute).size
           t == Deref(last_template).size
       IN  v.threshold_min[1] * (t[1] * t[2]) = (s[1] * s[2]) * v.threshold_min[2]

(* C3: validate called when no substitute call has returned raises the    *)
(* ValueError and returns no boolean.                                      *)
C3_ValidateBeforeSubstituteRaises ==
    (last_validate # None /\ ~Deref(last_validate).after_substitute)
      => Deref(last_validate).result = "ValueError"

(* validate was called on a Generator no substitute call has returned on. *)
C3_Witness ==
    /\ last_validate # None
    /\ ~Deref(last_validate).after_substitute
    /\ ~substituted

LocatedNothing(call) ==
    /\ call.args.resize_to = None
    /\ call.out.placement # None
    /\ Deref(call.out.placement)[1] = None

(* C5: when find_placement returns no position and no resize_to is given, *)
(* substitute raises before it calls resize or paste.                      *)
C5_UndefinedPositionRejectedBeforeResize ==
    (last_substitute # None /\ LocatedNothing(Deref(last_substitute)))
      => LET out == Deref(last_substitute).out
         IN  /\ out.exc # ""
             /\ \A i \in DOMAIN out.trace : out.trace[i] \notin { "resize", "paste" }

(* C10: substitute with use_dominant_color and a cluster amount of 0 uses *)
(* white as the dominant color, reads no pixel and runs no clustering.     *)
C10_ZeroClustersIsWhite ==
    ( /\ last_substitute # None
      /\ Deref(last_substitute).args.use_dominant_color
      /\ Deref(last_substitute).args.dominant_cluster_amount = 0
      /\ Deref(last_substitute).args.resize_to = None
      /\ Len(Deref(last_substitute).out.trace) >= 2 )
      => LET out == Deref(last_substitute).out
         IN  /\ out.dominant_color = White
             /\ \A i \in DOMAIN out.trace :
                   out.trace[i] \notin { "np.asarray", "kmeans", "vq", "histogram" }

(***************************************************************************)
(* Properties of substitute_until_valid (Spec).                            *)
(***************************************************************************)
RangeSize == search.cluster_range[2] - search.cluster_range[1] + 1

(* The candidates in the order (b, lo), ..., (b, hi), (~b, lo), ...,       *)
(* (~b, hi): the i-th of them.                                             *)
Candidate(i) ==
    << IF i <= RangeSize
       THEN search.initial_use_dominant_color
       ELSE ~search.initial_use_dominant_color,
       search.cluster_range[1] + ((i - 1) % RangeSize) >>

AllFailed == \A i \in DOMAIN search.verdicts : search.verdicts[i] = "False"

(* C2: a search over a range lo <= hi calls substitute, then validate, on *)
(* the candidates (b, lo), ..., (b, hi), (~b, lo), ..., (~b, hi) in this   *)
(* order; it returns the image of the first attempt that validates and     *)
(* calls nothing after it; it returns None exactly when all 2*(hi-lo+1)    *)
(* candidates were attempted and each failed validation.                   *)
C2_SearchOrderAndResult ==
    (search.pc # "idle" /\ RangeSize >= 1) =>
      LET calls == search.calls
          verdicts == search.verdicts
      IN  /\ Len(calls) <= 2 * RangeSize
          /\ \A i \in DOMAIN calls :
                /\ calls[i].use_dominant_color = Candidate(i)[1]
                /\ calls[i].dominant_cluster_amount = Candidate(i)[2]
                /\ calls[i].resize_to = None
                /\ calls[i].source_img_path = search.source_img_path
                /\ calls[i].substitute_img_path = search.substitute_img_path
          /\ Len(verdicts) \in { Len(calls), Len(calls) - 1 }
          /\ \A i \in DOMAIN verdicts : i < Len(calls) => verdicts[i] = "False"
          /\ search.pc = "loop" => (Len(verdicts) = Len(calls) /\ AllFailed)
          /\ (search.pc = "done" /\ search.exc = "") =>
                /\ search.ret # None =>
                      /\ Len(calls) >= 1
                      /\ Len(verdicts) = Len(calls)
                      /\ verdicts[Len(calls)] = "True"
                      /\ search.ret = last_template
                /\ search.ret = None <=>
                      /\ Len(calls) = 2 * RangeSize
                      /\ Len(verdicts) = 2 * RangeSize
                      /\ AllFailed

(* A search that returned the image of its third candidate out of four    *)
(* or more, after two failed validations.                                  *)
C2_Witness ==
    /\ search.pc = "done"
    /\ search.exc = ""
    /\ search.ret # None
    /\ Len(search.calls) = 3
    /\ RangeSize >= 2

(* C8: within one search no (toggle, count) pair is passed to substitute  *)
(* twice, whatever the initial toggle and the range.                       *)
C8_NoVariantTwice ==
    \A i, j \in DOMAIN search.calls :
        i < j =>
          << search.calls[i].use_dominant_color,
             search.calls[i].dominant_cluster_amount >>
            # << search.calls[j].use_dominant_color,
                 search.calls[j].dominant_cluster_amount >>

(* A search that went through both passes of a range of two counts or     *)
(* more and returned None.                                                 *)
C8_Witness ==
    /\ search.pc = "done"
    /\ search.exc = ""
    /\ search.ret = None
    /\ RangeSize >= 2
    /\ Len(search.calls) = 2 * RangeSize

(* C9: a search over a range with min > max raises an error and attempts  *)
(* no substitution; it does not return None.                               *)
C9_MalformedRangeRaises ==
    (search.pc = "done" /\ search.cluster_range[1] > search.cluster_range[2])
      => (search.exc # "" /\ search.calls = << >>)

(***************************************************************************)
(* Properties of find_placement (SpecLocate).                              *)
(***************************************************************************)
Uniform(grid, C) == \A p \in PixelPositions(grid) : Pixel(grid, p[1], p[2]) = C

(* C6: on a template of width >= 1 and height >= 1 whose pixels all have  *)
(* the color C, find_placement with dominant color C returns no position   *)
(* and the size (0, 0).                                                    *)
C6_UniformTemplateNotFound ==
    (fp.pc = "return" /\ Uniform(template, dominant))
      => FpResult(fp) = << None, << 0, 0 >> >>

(* The scan has returned on a uniform template of two rows and two columns *)
(* or more, each row given up at its midpoint pixel.                       *)
C6_Witness ==
    /\ fp.pc = "return"
    /\ Uniform(template, dominant)
    /\ GridWidth(template) >= 2
    /\ GridHeight(template) >= 2
    /\ ~fp.passed
    /\ fp.x = (GridWidth(template) \div 2) - 1

(* The pixels of the grid that do not have the color C. *)
Foreground(grid, C) == { p \in PixelPositions(grid) : Pixel(grid, p[1], p[2]) # C }

LeftEdge(P) == SetMin({ p[1] : p \in P })

RightEdge(P) == SetMax({ p[1] : p \in P })

TopEdge(P) == SetMin({ p[2] : p \in P })

BottomEdge(P) == SetMax({ p[2] : p \in P })

(* Background C and one rectangle of one color not similar to C, with the *)
(* same margin, of one pixel or more, left and right, and above and below. *)
IsCenteredRectangle(grid, C) ==
    LET P == Foreground(grid, C)
    IN  /\ P # {}
        /\ \A p, q \in P : Pixel(grid, p[1], p[2]) = Pixel(grid, q[1], q[2])
        /\ \A p \in P : ~are_colors_similar(Pixel(grid, p[1], p[2]), C,
                                            SimilarityTolerance)
        /\ \A p \in PixelPositions(grid) :
              ( /\ p[1] >= LeftEdge(P) /\ p[1] <= RightEdge(P)
                /\ p[2] >= TopEdge(P) /\ p[2] <= BottomEdge(P) ) => p \in P
        /\ LeftEdge(P) >= 1
        /\ TopEdge(P) >= 1
        /\ LeftEdge(P) = GridWidth(grid) - 1 - RightEdge(P)
        /\ TopEdge(P) = GridHeight(grid) - 1 - BottomEdge(P)

(* C7: on a background C with one centered rectangle of a color not       *)
(* similar to C, find_placement with dominant color C returns a position,  *)
(* a height equal to the number of rows of the rectangle and an x equal to *)
(* the left edge of the rectangle.                                         *)
C7_CenteredRectangleLocated ==
    (fp.pc = "return" /\ IsCenteredRectangle(template, dominant))
      => LET P == Foreground(template, dominant)
         IN  /\ fp.starting_position # None
             /\ fp.substitute_height = BottomEdge(P) - TopEdge(P) + 1
             /\ fp.starting_position[1] = LeftEdge(P)

(***************************************************************************)
(* Properties of find_dominant_color (SpecDominant).                       *)
(***************************************************************************)
(* The number of pixels assigned to code index i. *)
Bucket(i) == Cardinality({ p \in DOMAIN dc.vecs : dc.vecs[p] = i })

(* C11: given the code book and the code index of every pixel,            *)
(* find_dominant_color returns the code whose bucket holds the most        *)
(* pixels, also when some code indices receive no pixel; a code with an    *)
(* empty bucket is never returned.                                         *)
C11_PeakIsMostPopulousBucket ==
    dc.pc = "return" =>
      \E i \in 0..(Len(dc.codes) - 1) :
          /\ dc.peak = dc.codes[i + 1]
          /\ Bucket(i) > 0
          /\ \A j \in 0..(Len(dc.codes) - 1) : Bucket(j) <= Bucket(i)

(***************************************************************************)
(* Properties of the stored attempt (Spec).                                *)
(***************************************************************************)
(* C12: after a substitute call that completed, whatever calls came       *)
(* before it, the three fields are exactly the position, the resized       *)
(* substitute and the composited template of that call, and the verdict of *)
(* the validate call that follows is the verdict on these three values.    *)
C12_StoredAttemptIsMostRecent ==
    (last_substitute # None /\ Deref(last_substitute).out.exc = "") =>
      LET out == Deref(last_substitute).out
      IN  /\ last_placement_position = out.placement_position
          /\ last_resized_substitute = out.resized_substitute
          /\ last_template = out.template
          /\ last_validate # None =>
                Deref(last_validate).result =
                    validate(out.template, out.resized_substitute,
                             out.placement_position,
                             Deref(last_validate).threshold_min,
                             Deref(last_validate).threshold_max)

(* A search whose second or later attempt was accepted after the first    *)
(* one had been rejected: the stored attempt was replaced by another.      *)
C12_Witness ==
    /\ search.pc = "done"
    /\ Len(search.calls) >= 2
    /\ search.verdicts[1] = "False"
    /\ last_substitute # None
    /\ Deref(last_substitute).out.exc = ""
    /\ last_validate # None
    /\ Deref(last_validate).result = "True"
    /\ last_template = Deref(last_substitute).out.template

(* C13: validate leaves the three fields as it found them, whether it     *)
(* returns true, returns false or raises; two validate calls in a row with *)
(* the same thresholds and no substitute call between them return the same *)
(* boolean.                                                                *)
C13_ValidateReadsOnly ==
    last_validate # None =>
      LET v == Deref(last_validate)
      IN  /\ v.stored_before = generator_vars
          /\ ( /\ v.previous # None
               /\ Deref(v.previous).threshold_min = v.threshold_min
               /\ Deref(v.previous).threshold_max = v.threshold_max )
             => v.result = Deref(v.previous).result

(* Two validate calls in a row with the same thresholds on a stored       *)
(* attempt, both returning True.                                           *)
C13_Witness ==
    /\ last_validate # None
    /\ last_substitute = None
    /\ last_template # None
    /\ Deref(last_validate).previous # None
    /\ Deref(Deref(last_validate).previous).threshold_min
         = Deref(last_validate).threshold_min
    /\ Deref(Deref(last_validate).previous).threshold_max
         = Deref(last_validate).threshold_max
    /\ Deref(last_validate).result = "True"
    /\ Deref(last_validate).stored_before = generator_vars

(***************************************************************************)
(* The search over a single integer (Spec).                                *)
(***************************************************************************)
(* The latest substitute call of the search got as far as choosing its    *)
(* dominant color: both images were opened.                                *)
SearchAttemptChoseColor ==
    /\ search.pc # "idle"
    /\ search.calls # << >>
    /\ last_substitute # None
    /\ Deref(last_substitute).args = search.calls[Len(search.calls)]
    /\ Len(Deref(last_substitute).out.trace) >= 2

(* C14: the search over the range (lo, hi) tries the cluster amounts in   *)
(* ascending order, each once; the amount 0 selects the white fallback and *)
(* a nonzero amount selects clustering with that amount; the search        *)
(* returns the result of the first amount that validates and tries none    *)
(* after it.                                                               *)
C14_SingleIntegerSearch ==
    (search.pc # "idle" /\ RangeSize >= 1) =>
      /\ \A i \in DOMAIN search.calls :
            i <= RangeSize =>
              search.calls[i].dominant_cluster_amount = search.cluster_range[1] + i - 1
      /\ \A i \in DOMAIN search.verdicts :
            i < Len(search.calls) => search.verdicts[i] = "False"
      /\ (SearchAttemptChoseColor /\ Len(search.calls) <= RangeSize) =>
            LET call == Deref(last_substitute)
            IN  IF call.args.dominant_cluster_amount = 0
                THEN /\ call.out.dominant_color = White
                     /\ \A i \in DOMAIN call.out.trace :
                           call.out.trace[i] \notin { "np.asarray", "kmeans" }
                ELSE /\ call.args.use_dominant_color
                     /\ \E i \in DOMAIN call.out.trace : call.out.trace[i] = "kmeans"

(***************************************************************************)
(* Properties of the scan of find_placement (SpecLocate).                  *)
(***************************************************************************)
(* The x of the pixels of row y that are similar to the color C. *)
SimilarInRow(grid, y, C) ==
    { x \in 0..(GridWidth(grid) - 1) :
        are_colors_similar(Pixel(grid, x, y), C, SimilarityTolerance) }

(* C15: for every width W >= 1, a row is rejected exactly when the number *)
(* of its pixels similar to the dominant color exceeds W \div 2; a row     *)
(* with at most W \div 2 similar pixels passes.                            *)
C15_RowRejectedIffOverBudget ==
    fp.pc = "rowend" =>
      ( ~fp.passed <=>
          Cardinality(SimilarInRow(template, fp.y, dominant))
            > GridWidth(template) \div 2 )

(* The x at which the scan of row y stops: the pixel that brings the      *)
(* budget to 0, or the width when the scan reaches the end of the row.     *)
StopX(grid, y, C) ==
    LET budget == GridWidth(grid) \div 2
        similar == SimilarInRow(grid, y, C)
        stops == { x \in similar :
                     Cardinality({ x2 \in similar : x2 <= x }) = budget }
    IN  IF budget >= 1 /\ stops # {} THEN SetMin(stops) ELSE GridWidth(grid)

RowPassed(grid, y, C) == StopX(grid, y, C) = GridWidth(grid)

(* The x of the dissimilar pixels of row y scanned before the scan stops. *)
ScannedDissimilar(grid, y, C) ==
    LET stop == StopX(grid, y, C)
        similar == SimilarInRow(grid, y, C)
    IN  { x \in 0..(stop - 1) : x \notin similar }

(* A row at which a streak ends: a rejected row, or the last row. *)
EndsStreak(grid, y, C) == ~RowPassed(grid, y, C) \/ y = GridHeight(grid) - 1

(* The number of rows in a row that passed right above row y. *)
StreakAbove(grid, y, C) ==
    CHOOSE n \in 0..y :
        /\ \A r \in (y - n)..(y - 1) : RowPassed(grid, r, C)
        /\ n = y \/ ~RowPassed(grid, y - n - 1, C)

(* The rows at which a streak ends that hold a scanned dissimilar pixel. *)
StreakEnds(grid, C) ==
    { y \in 0..(GridHeight(grid) - 1) :
        EndsStreak(grid, y, C) /\ ScannedDissimilar(grid, y, C) # {} }

(* C16: when find_placement returns a position (x, y) and a height h,     *)
(* then h >= 1 and y >= 0, the rows y .. y+h-1 passed, row y+h is where    *)
(* the streak ended (a rejected row or the last row) and holds a scanned   *)
(* dissimilar pixel, the first of which is at x; h is the largest streak   *)
(* that ended at such a row, the earliest of them on a tie.                *)
C16_PositionIsBestStreak ==
    (fp.pc = "return" /\ fp.starting_position # None) =>
      LET x == fp.starting_position[1]
          y == fp.starting_position[2]
          h == fp.substitute_height
          ends == StreakEnds(template, dominant)
      IN  /\ h >= 1
          /\ y >= 0
          /\ y + h <= GridHeight(template) - 1
          /\ \A r \in y..(y + h - 1) : RowPassed(template, r, dominant)
          /\ y + h \in ends
          /\ StreakAbove(template, y + h, dominant) = h
          /\ x = SetMin(ScannedDissimilar(template, y + h, dominant))
          /\ \A e \in ends :
                /\ StreakAbove(template, e, dominant) <= h
                /\ StreakAbove(template, e, dominant) = h => e >= y + h

(* The scan returned a position where two streaks of the same length each *)
(* ended at a row with a dissimilar pixel, and a third streak ended at a   *)
(* row without one.                                                        *)
C16_Witness ==
    /\ fp.pc = "return"
    /\ fp.starting_position # None
    /\ \E e1, e2 \in StreakEnds(template, dominant) :
          /\ e1 < e2
          /\ StreakAbove(template, e1, dominant) = fp.substitute_height
          /\ StreakAbove(template, e2, dominant) = fp.substitute_height
          /\ fp.starting_position[2] = e1 - fp.substitute_height
    /\ \E r \in 0..(GridHeight(template) - 1) :
          /\ EndsStreak(template, r, dominant)
          /\ ScannedDissimilar(template, r, dominant) = {}
          /\ StreakAbove(template, r, dominant) >= 1

(* The distance from the first to the last x of a set of pixels of a row. *)
Span(S) == IF S = {} THEN 0 ELSE SetMax(S) - SetMin(S)

(* The widest span of scanned dissimilar pixels over the rows 0 .. y. *)
WidestUpTo(grid, y, C) ==
    SetMax({ 0 } \cup { Span(ScannedDissimilar(grid, r, C)) : r \in 0..y })

(* After each row, and at the return, the width is the widest span of the *)
(* rows scanned.                                                           *)
WidthAfterRow ==
    fp.pc \in { "rowend", "return" } =>
      fp.substitute_width = WidestUpTo(template, fp.y, dominant)

(* C17: the width returned is the maximum, over all rows of the image,    *)
(* passed or rejected, of (x of the last - x of the first) scanned         *)
(* dissimilar pixel of the row, 0 if there is none; after each row the     *)
(* running width is that maximum over the rows scanned so far, and no step *)
(* of the scan decreases it or resets it.                                  *)
C17_WidthIsGlobalMaximum ==
    /\ []WidthAfterRow
    /\ [][fp'.substitute_width >= fp.substitute_width]_vars

(* The scan returned a rectangle whose rows are all narrower than the     *)
(* width returned: the widest row lies outside it.                         *)
C17_Witness ==
    /\ fp.pc = "return"
    /\ fp.starting_position # None
    /\ fp.substitute_width > 0
    /\ \A r \in fp.starting_position[2]..(fp.starting_position[2] + fp.substitute_height - 1) :
          Span(ScannedDissimilar(template, r, dominant)) < fp.substitute_width
    /\ \E r \in 0..(GridHeight(template) - 1) :
          /\ ~RowPassed(template, r, dominant)
          /\ Span(ScannedDissimilar(template, r, dominant)) = fp.substitute_width

(* C18: at every step of the scan and at its return, the width is between *)
(* 0 and W - 1, the height is between 0 and H - 1, and the position is     *)
(* None exactly when the height is 0.                                      *)
C18_ScanInvariants ==
    /\ fp.substitute_width >= 0
    /\ fp.substitute_width <= GridWidth(template) - 1
    /\ fp.substitute_height >= 0
    /\ fp.substitute_height <= GridHeight(template) - 1
    /\ fp.starting_position = None <=> fp.substitute_height = 0

(* The scan returned a position with the largest width and the largest    *)
(* height a template of two columns and two rows or more allows.           *)
C18_Witness ==
    /\ fp.pc = "return"
    /\ fp.starting_position # None
    /\ GridWidth(template) >= 2
    /\ GridHeight(template) >= 2
    /\ fp.substitute_width = GridWidth(template) - 1
    /\ fp.substitute_height = GridHeight(template) - 1

(* C19: for every template of size (W, H) and every dominant color, a     *)
(* position (x, y) returned with the size (w, h) gives a rectangle inside  *)
(* the template: x >= 0, y >= 0, x + w <= W and y + h <= H.                *)
C19_RectangleInsideTemplate ==
    (fp.pc = "return" /\ fp.starting_position # None) =>
      /\ fp.starting_position[1] >= 0
      /\ fp.starting_position[2] >= 0
      /\ fp.starting_position[1] + fp.substitute_width <= GridWidth(template)
      /\ fp.starting_position[2] + fp.substitute_height <= GridHeight(template)

(* C19 as amended: a position (x, y) returned with the size (w, h) has    *)
(* x >= 0, y >= 0, y + h <= H, w <= W - 1 and x <= max(0, W \div 2 - 1),   *)
(* so that x + w <= W on the templates of width 5 or less; on wider ones   *)
(* x + w may exceed W.                                                     *)
C19_RectangleWithinReach ==
    (fp.pc = "return" /\ fp.starting_position # None) =>
      LET x == fp.starting_position[1]
          y == fp.starting_position[2]
          W == GridWidth(template)
      IN  /\ x >= 0
          /\ y >= 0
          /\ y + fp.substitute_height <= GridHeight(template)
          /\ fp.substitute_width <= W - 1
          /\ x <= SetMax({ 0, (W \div 2) - 1 })
          /\ W <= 5 => x + fp.substitute_width <= W

(* The scan returned a rectangle that reaches beyond the right edge of    *)
(* the template: its x comes from one row and its width from another.      *)
C19_Witness ==
    /\ fp.pc = "return"
    /\ fp.starting_position # None
    /\ fp.starting_position[1] + fp.substitute_width > GridWidth(template)
    /\ fp.starting_position[2] + fp.substitute_height <= GridHeight(template)

(***************************************************************************)
(* Properties of a substitute call that raises (Spec).                     *)
(***************************************************************************)
(* C20: a substitute call that raises, at whatever step, leaves the three *)
(* fields as they were before the call, so that the validate call that     *)
(* follows judges the attempt stored before it, or raises the ValueError   *)
(* when none was stored.                                                   *)
C20_FailedSubstituteKeepsAttempt ==
    (last_substitute # None /\ Deref(last_substitute).out.exc # "") =>
      LET before == Deref(last_substitute).stored_before
      IN  /\ generator_vars = before
          /\ \A tmin \in Thresholds, tmax \in Thresholds :
                validate_last_substitution(tmin, tmax)
                  = validate(before[3], before[2], before[1], tmin, tmax)
          /\ before = << None, None, None >> =>
                validate_last_substitution(DefaultThresholdMin, DefaultThresholdMax)
                  = "ValueError"

(* A substitute call raised in the clustering on a Generator that held an *)
(* accepted attempt, and the attempt is still there.                       *)
C20_Witness ==
    /\ last_substitute # None
    /\ Deref(last_substitute).out.exc = "ValueError"
    /\ \E i \in DOMAIN Deref(last_substitute).out.trace :
          Deref(last_substitute).out.trace[i] = "kmeans"
    /\ Deref(last_substitute).stored_before[3] # None
    /\ last_template # None
    /\ validate_last_substitution(DefaultThresholdMin, DefaultThresholdMax) = "True"

====
